---- MODULE Spec2Model ----
(***************************************************************************)
(* Connection fan-out registry of ExCore's realtime adapters.              *)
(*                                                                         *)
(* SSEManager (packages/core/src/adapters/realtime/SSEManager.ts) and      *)
(* WebSocketManager keep the same three maps and run the same code for     *)
(* addConnection, removeConnection, the record's close closure, closeAll   *)
(* and the publish operations; one state machine models both.              *)
(*                                                                         *)
(* JavaScript Maps and Sets iterate in insertion order, so both are        *)
(* modelled as sequences without repetition.  Every public method runs to  *)
(* completion on the single JavaScript thread, so every call is one        *)
(* action.  The caller's sendFn and closeFn may return or throw: that is a *)
(* parameter of the actions that invoke them.  Spec has the callers whose  *)
(* closeFn returns; PublishSpec adds the publish operations and the        *)
(* functions that throw, which leave the three maps as they are.           *)
(***************************************************************************)
EXTENDS Integers, Sequences, FiniteSets, TLC

----------------------------------------------------------------------------
(* Bounds of the model *)

\* the number of addConnection calls that return a record
MaxRecords == 2
\* the number of closeFn calls after which close() and closeAll() are not called again
MaxCloseCalls == 2
\* the number of handleMessage calls that await a handler at one time
MaxPending == 1
\* the number of handleMessage calls in flight at one time when the callers
\* do not wait for one call before they make the next
MaxInFlight == 2
\* the number of execute calls made on the unit of work
MaxExecutes == 2
\* the number of maybeInjectChaos calls, and the last reading of the clock
MaxCalls == 4
MaxTime == 4
\* the number of send calls whose frames the transports keep
MaxSends == 2

\* the strings the callers pass as connectionId, userId and channel
ConnectionIds == {"c1", "c2"}
UserIds == {"u1", "u2"}
Channels == {"x"}
\* the values of options.maxConnectionsPerUser the managers are constructed with
QuotaOptions == {1, 2}
\* the values of options.maxMessageSize WebSocketManager is constructed with
MaxMessageSizeOptions == {16}
\* the message types inbound frames carry, and those among them the
\* application registers a handler for
MessageTypes == {"chat", "ping"}
HandlerTypes == {"chat"}
\* the functions the callers pass to onMessage
Handlers == {"h1", "h2"}
\* inbound frames: rawMessage.length, and what JSON.parse makes of the text:
\* a SyntaxError, null, an object without a type, or an object with a type
FrameLengths == {16, 17}
Frames ==
    [length : FrameLengths, json : {"invalid", "null", "untyped"}, type : {""}]
    \cup [length : FrameLengths, json : {"typed"}, type : MessageTypes]

\* an optional string argument that was left out
Undefined == "<undefined>"

\* SSEEvent: id and event are optional strings, retry an optional number (a
\* sequence of at most one), data a string, given by its lines, or an object
\* with a timestamp
EventIds == {Undefined, "", "7"}
EventNames == {Undefined, "", "heartbeat"}
EventData == {[type |-> "string", lines |-> <<"hello">>, timestamp |-> 0],
              [type |-> "string", lines |-> <<"a", "b">>, timestamp |-> 0],
              [type |-> "object", lines |-> <<>>, timestamp |-> 5]}
EventRetries == {<<>>, <<0>>, <<3000>>}
Events == [id : EventIds, event : EventNames, data : EventData, retry : EventRetries]

\* the values a caller passes as userId? / channel?
UserArgs == UserIds \cup {Undefined, ""}
ChannelArgs == Channels \cup {Undefined}

\* JavaScript truthiness of an optional string: `if (userId)`
Truthy(s) == s # Undefined /\ s # ""

----------------------------------------------------------------------------
(* Map<K, V> and Set<string> *)

EmptyMap == [k \in {} |-> <<>>]
MapHas(m, k) == k \in DOMAIN m
MapSet(m, k, v) == [x \in (DOMAIN m) \cup {k} |-> IF x = k THEN v ELSE m[x]]
MapDelete(m, k) == [x \in (DOMAIN m) \ {k} |-> m[x]]

Range(s) == {s[i] : i \in 1..Len(s)}
SetAdd(s, e) == IF e \in Range(s) THEN s ELSE Append(s, e)
SetDelete(s, e) == SelectSeq(s, LAMBDA x : x # e)

----------------------------------------------------------------------------
(* State *)

VARIABLES
    connections,         \* Map<string, Connection>: sequence of entries in insertion order
    userConnections,     \* Map<string, Set<string>>
    channelConnections,  \* Map<string, Set<string>>
    heartbeatTimer,      \* TRUE while the interval timer is set
    maxConnectionsPerUser, \* options.maxConnectionsPerUser
    handles,             \* one entry per record addConnection returned: the connectionId its closures hold
    closeRawCalls,       \* per transport: how often closeFn has been invoked
    op,                  \* the last call made on the manager and what it did
    prev,                \* the three maps as they were before the last call, an addConnection
    publish,             \* the sendToUser, sendToChannel or broadcast loop that is running
    messageHandlers,     \* Map<string, MessageHandler>: the handler of each type that has one
    maxMessageSize,      \* options.maxMessageSize
    pending,             \* the handleMessage calls that await their handler's promise
    issued,              \* the send calls made so far on transports that keep what they are given
    wire,                \* per transport: the numbers of the calls whose frame its sendFn was given, in order
    sse,                 \* the last event given to sendEvent and the message it gave to sendFn
    unitOfWork,          \* PostgreSQLUnitOfWork: active, history, and its connection manager's connected
    executes,            \* the execute calls made on the unit of work, each with what it did
    chaos                \* ChaosEngine: enabled, the circuit-breaker scenario, its circuit state, the clock

vars == <<connections, userConnections, channelConnections, heartbeatTimer,
          maxConnectionsPerUser, handles, closeRawCalls, op, prev,
          publish, messageHandlers, maxMessageSize, pending, issued, wire, sse,
          unitOfWork, executes, chaos>>

\* what WebSocketManager.onMessage and handleMessage work on
messaging == <<messageHandlers, maxMessageSize, pending>>

\* what the sendFn of a transport that keeps its frames has been given
wires == <<issued, wire, sse>>

\* the unit of work and the execute calls made on it
persistence == <<unitOfWork, executes>>

\* the state of the SSE and WebSocket managers and of their callers
realtime == <<connections, userConnections, channelConnections, heartbeatTimer,
              maxConnectionsPerUser, handles, closeRawCalls, op, prev, publish,
              messaging, wires>>

\* the three maps as one value
Indices == [connections |-> connections,
            userConnections |-> userConnections,
            channelConnections |-> channelConnections]

\* this.connections.has / get
connectionIds(conns) == {conns[i].id : i \in 1..Len(conns)}
connectionsHas(conns, id) == id \in connectionIds(conns)
connectionsGet(conns, id) == conns[CHOOSE i \in 1..Len(conns) : conns[i].id = id]

\* this.connections.set(connectionId, connection): an existing key keeps its
\* position and gets the new value, a new key is appended
connectionsSet(conns, rec) ==
    IF connectionsHas(conns, rec.id)
    THEN [i \in 1..Len(conns) |-> IF conns[i].id = rec.id THEN rec ELSE conns[i]]
    ELSE Append(conns, rec)

\* this.connections.delete(connectionId)
connectionsDelete(conns, id) == SelectSeq(conns, LAMBDA r : r.id # id)

getConnectionCount(S) == Len(S.connections)

getUserConnectionCount(S, userId) ==
    IF MapHas(S.userConnections, userId) THEN Len(S.userConnections[userId]) ELSE 0

getChannelConnectionCount(S, channel) ==
    IF MapHas(S.channelConnections, channel) THEN Len(S.channelConnections[channel]) ELSE 0

----------------------------------------------------------------------------
(* Registry core: addConnection and removeConnection *)

\* the admission check with > for >=
quotaExceeded_offByOne(S, userId, max) ==
    Truthy(userId) /\ getUserConnectionCount(S, userId) > max

\* the admission check against the number of all connections
quotaExceeded_totalCount(S, userId, max) ==
    Truthy(userId) /\ getConnectionCount(S) >= max

\* the admission check of addConnection
quotaExceeded(S, userId, max) ==
    Truthy(userId) /\ getUserConnectionCount(S, userId) >= max

\* tracking that adds the id only when it creates the set
track_onlyNewKey(m, key, connectionId) ==
    IF Truthy(key) /\ ~MapHas(m, key) THEN MapSet(m, key, <<connectionId>>) ELSE m

\* "Track user connections" / "Track channel connections": create the set
\* when the key is new, then add the id
track(m, key, connectionId) ==
    IF Truthy(key)
    THEN MapSet(m, key, SetAdd(IF MapHas(m, key) THEN m[key] ELSE <<>>, connectionId))
    ELSE m

\* addConnection that stores the record before the admission check
addConnection_setBeforeCheck(S, connectionId, rec, userId, channel, max) ==
    LET connection == [id |-> connectionId, rec |-> rec,
                       userId |-> userId, channel |-> channel]
        stored == [S EXCEPT !.connections = connectionsSet(S.connections, connection)]
    IN  IF quotaExceeded(S, userId, max)
        THEN [result |-> "MaximumConnectionsExceeded", state |-> stored,
              sendLog |-> <<>>, closeLog |-> <<>>]
        ELSE [result |-> "ok",
              state |-> [connections |-> stored.connections,
                         userConnections |-> track(S.userConnections, userId, connectionId),
                         channelConnections |-> track(S.channelConnections, channel, connectionId)],
              sendLog |-> <<>>, closeLog |-> <<>>]

\* addConnection(connectionId, sendFn, closeFn, userId?, channel?): rec names
\* the transport (sendFn, closeFn) the new record's closures capture; sendLog
\* and closeLog are the sendFn and closeFn calls the method makes, which are
\* none on either path
addConnection(S, connectionId, rec, userId, channel, max) ==
    IF quotaExceeded(S, userId, max)
    THEN [result |-> "MaximumConnectionsExceeded", state |-> S,
          sendLog |-> <<>>, closeLog |-> <<>>]
    ELSE LET connection == [id |-> connectionId, rec |-> rec,
                            userId |-> userId, channel |-> channel]
         IN  [result |-> "ok",
              state |-> [connections |-> connectionsSet(S.connections, connection),
                         userConnections |-> track(S.userConnections, userId, connectionId),
                         channelConnections |-> track(S.channelConnections, channel, connectionId)],
              sendLog |-> <<>>, closeLog |-> <<>>]

\* untracking that leaves the emptied set in the map
untrack_keepEmptySet(m, key, connectionId) ==
    IF Truthy(key) /\ MapHas(m, key)
    THEN MapSet(m, key, SetDelete(m[key], connectionId))
    ELSE m

\* an untrack that drops the whole set of the key
untrack_dropsSet(m, key, connectionId) ==
    IF Truthy(key) /\ MapHas(m, key) THEN MapDelete(m, key) ELSE m

\* "Remove from user tracking" / "Remove from channel tracking": delete the
\* id from the key's set, and the set from the map when it became empty
untrack(m, key, connectionId) ==
    IF Truthy(key) /\ MapHas(m, key)
    THEN LET conns == SetDelete(m[key], connectionId)
         IN  IF Len(conns) = 0 THEN MapDelete(m, key) ELSE MapSet(m, key, conns)
    ELSE m

\* removeConnection that throws for an id that is not registered
removeConnection_throwsOnMissing(S, connectionId) ==
    IF ~connectionsHas(S.connections, connectionId)
    THEN [result |-> "NotFound", state |-> S]
    ELSE LET connection == connectionsGet(S.connections, connectionId)
         IN  [result |-> "ok",
              state |-> [connections |-> connectionsDelete(S.connections, connectionId),
                         userConnections |-> untrack(S.userConnections, connection.userId, connectionId),
                         channelConnections |-> untrack(S.channelConnections, connection.channel, connectionId)]]

\* removeConnection that untracks the id and leaves the record in connections
removeConnection_keepsRecord(S, connectionId) ==
    IF ~connectionsHas(S.connections, connectionId)
    THEN [result |-> "ok", state |-> S]
    ELSE LET connection == connectionsGet(S.connections, connectionId)
         IN  [result |-> "ok",
              state |-> [connections |-> S.connections,
                         userConnections |-> untrack(S.userConnections, connection.userId, connectionId),
                         channelConnections |-> untrack(S.channelConnections, connection.channel, connectionId)]]

\* removeConnection(connectionId)
removeConnection(S, connectionId) ==
    IF ~connectionsHas(S.connections, connectionId)
    THEN [result |-> "ok", state |-> S]
    ELSE LET connection == connectionsGet(S.connections, connectionId)
         IN  [result |-> "ok",
              state |-> [connections |-> connectionsDelete(S.connections, connectionId),
                         userConnections |-> untrack(S.userConnections, connection.userId, connectionId),
                         channelConnections |-> untrack(S.channelConnections, connection.channel, connectionId)]]

----------------------------------------------------------------------------
(* The calls *)

NoOp == [name |-> "new", id |-> Undefined, userId |-> Undefined, channel |-> Undefined,
         rec |-> 0, result |-> "ok", count |-> 0, sendLog |-> <<>>, closeLog |-> <<>>,
         removed |-> {}, frame |-> [length |-> 0, json |-> "none", type |-> ""],
         frames |-> <<>>, handled |-> <<>>, outcome |-> "none",
         handler |-> Undefined, invoked |-> <<>>]

\* sendEvent has not been called on a transport that keeps its message
NoFrame == [event |-> [id |-> Undefined, event |-> Undefined,
                       data |-> [type |-> "string", lines |-> <<"">>, timestamp |-> 0],
                       retry |-> <<>>],
            message |-> <<>>]

\* no sendToUser, sendToChannel or broadcast loop is running
NoPublish == [name |-> "idle", key |-> Undefined, cursor |-> 0, attached |-> FALSE,
              sent |-> 0, sendLog |-> <<>>, start |-> {}, added |-> {}, removed |-> {}]

\* the closeFn calls made so far, over all transports
RECURSIVE closeCalls(_)
closeCalls(calls) == IF calls = <<>> THEN 0 ELSE Head(calls) + closeCalls(Tail(calls))

\* prev after a call other than addConnection
NoSnapshot == [connections |-> <<>>, userConnections |-> EmptyMap,
               channelConnections |-> EmptyMap]

SetIndices(S) ==
    /\ connections' = S.connections
    /\ userConnections' = S.userConnections
    /\ channelConnections' = S.channelConnections

\* new PostgreSQLUnitOfWork(new PostgreSQLConnectionManager())
NewUnitOfWork == [active |-> FALSE, history |-> <<>>, connected |-> FALSE]

\* new ChaosEngine({ enabled: true }): no scenario, no circuit state; now is
\* what Date.now() returns, calls the maybeInjectChaos calls made so far
NoScenario == [registered |-> FALSE, enabled |-> FALSE, probability |-> 0,
               failureThreshold |-> 0, resetTimeMs |-> 0]
NoCircuit == [exists |-> FALSE, failures |-> 0, lastFailure |-> 0, isOpen |-> FALSE]
NewChaosEngine == [enabled |-> TRUE, scenario |-> NoScenario, circuit |-> NoCircuit,
                   now |-> 1, calls |-> <<>>]

Init ==
    /\ connections = <<>>
    /\ userConnections = EmptyMap
    /\ channelConnections = EmptyMap
    /\ heartbeatTimer = TRUE
    /\ maxConnectionsPerUser \in QuotaOptions
    /\ handles = <<>>
    /\ closeRawCalls = <<>>
    /\ op = NoOp
    /\ prev = NoSnapshot
    /\ publish = NoPublish
    /\ messageHandlers = EmptyMap
    /\ maxMessageSize \in MaxMessageSizeOptions
    /\ pending = <<>>
    /\ issued = 0
    /\ wire = [rec \in 1..MaxRecords |-> <<>>]
    /\ sse = NoFrame
    /\ unitOfWork = NewUnitOfWork
    /\ executes = <<>>
    /\ chaos = NewChaosEngine

\* manager.addConnection(connectionId, sendFn, closeFn, userId, channel)
\* with the functions of a new transport; a call that throws returns no
\* record, so its transport is not kept
AddConnection(connectionId, userId, channel) ==
    /\ LET rec == Len(handles) + 1
           r == addConnection(Indices, connectionId, rec, userId, channel, maxConnectionsPerUser)
       IN  /\ r.result = "ok" => Len(handles) < MaxRecords
           /\ SetIndices(r.state)
           /\ handles' = IF r.result = "ok" THEN Append(handles, connectionId) ELSE handles
           /\ closeRawCalls' = IF r.result = "ok"
                               THEN Append(closeRawCalls, Len(r.closeLog))
                               ELSE closeRawCalls
           /\ op' = [NoOp EXCEPT !.name = "addConnection", !.id = connectionId,
                                 !.userId = userId, !.channel = channel,
                                 !.rec = rec, !.result = r.result,
                                 !.sendLog = r.sendLog, !.closeLog = r.closeLog]
    /\ prev' = Indices
    /\ UNCHANGED <<wires, persistence, chaos>>
    /\ UNCHANGED <<heartbeatTimer, maxConnectionsPerUser, publish, messaging>>

\* manager.removeConnection(connectionId); op keeps how many records were
\* removed and the user and channel of the removed one
RemoveConnection(connectionId) ==
    /\ LET r == removeConnection(Indices, connectionId)
           found == connectionsHas(connections, connectionId)
           removed == IF found
                      THEN connectionsGet(connections, connectionId)
                      ELSE [userId |-> Undefined, channel |-> Undefined]
       IN  /\ SetIndices(r.state)
           /\ op' = [NoOp EXCEPT !.name = "removeConnection", !.id = connectionId,
                                 !.userId = removed.userId, !.channel = removed.channel,
                                 !.count = IF found THEN 1 ELSE 0, !.result = r.result]
    /\ prev' = NoSnapshot
    /\ UNCHANGED <<wires, persistence, chaos>>
    /\ UNCHANGED <<heartbeatTimer, maxConnectionsPerUser, handles, closeRawCalls,
                   publish, messaging>>

\* connection.close() on a record returned by addConnection, which the caller
\* may have kept: closeFn(), then this.removeConnection(connectionId)
Close(rec, throws) ==
    /\ rec \in 1..Len(handles)
    /\ closeCalls(closeRawCalls) < MaxCloseCalls
    /\ closeRawCalls' = [closeRawCalls EXCEPT ![rec] = @ + 1]
    /\ IF throws
       THEN /\ UNCHANGED <<connections, userConnections, channelConnections>>
            /\ op' = [NoOp EXCEPT !.name = "close", !.id = handles[rec], !.rec = rec,
                                  !.result = "threw", !.closeLog = <<rec>>]
       ELSE /\ SetIndices(removeConnection(Indices, handles[rec]).state)
            /\ op' = [NoOp EXCEPT !.name = "close", !.id = handles[rec], !.rec = rec,
                                  !.closeLog = <<rec>>]
    /\ prev' = NoSnapshot
    /\ UNCHANGED <<wires, persistence, chaos>>
    /\ UNCHANGED <<heartbeatTimer, maxConnectionsPerUser, handles, publish, messaging>>

\* one pass of closeAll's loop over this.connections.values(): each close()
\* that returns has deleted the entry it visited, so the next entry visited
\* is the first one left; `ok` closeFn calls return before one throws
RECURSIVE closeAllLoop(_, _, _, _)
closeAllLoop(S, calls, log, ok) ==
    IF Len(S.connections) = 0
    THEN [state |-> S, calls |-> calls, closeLog |-> log, result |-> "ok"]
    ELSE LET connection == Head(S.connections)
             calls1 == [calls EXCEPT ![connection.rec] = @ + 1]
             log1 == Append(log, connection.rec)
         IN  IF ok = 0
             THEN [state |-> S, calls |-> calls1, closeLog |-> log1, result |-> "threw"]
             ELSE closeAllLoop(removeConnection(S, connection.id).state, calls1, log1, ok - 1)

\* a stopHeartbeat that leaves the timer as it is
stopHeartbeat_leavesTimer(timer) == timer

\* stopHeartbeat(): clearInterval and this.heartbeatTimer = undefined
stopHeartbeat(timer) == FALSE

\* manager.closeAll(): close every record, then stopHeartbeat(); a closeFn
\* that throws ends the call before stopHeartbeat()
CloseAll(ok) ==
    /\ ok \in 0..Len(connections)
    /\ closeCalls(closeRawCalls) < MaxCloseCalls
    /\ LET r == closeAllLoop(Indices, closeRawCalls, <<>>, ok)
       IN  /\ SetIndices(r.state)
           /\ closeRawCalls' = r.calls
           /\ heartbeatTimer' = IF r.result = "ok"
                               THEN stopHeartbeat(heartbeatTimer) ELSE heartbeatTimer
           /\ op' = [NoOp EXCEPT !.name = "closeAll", !.result = r.result,
                                 !.closeLog = r.closeLog]
    /\ prev' = NoSnapshot
    /\ UNCHANGED <<wires, persistence, chaos>>
    /\ UNCHANGED <<maxConnectionsPerUser, handles, publish, messaging>>

----------------------------------------------------------------------------
(* Publisher and heartbeat *)

\* the transports of the registered records among the ids, in the ids' order:
\* sendToConnection returns false for an id that is not in this.connections
registered(S, ids) ==
    LET present == SelectSeq(ids, LAMBDA id : connectionsHas(S.connections, id))
    IN  [i \in 1..Len(present) |-> connectionsGet(S.connections, present[i]).rec]

\* connection.send on the targets in order; `ok` sendFn calls return before
\* one throws and ends the loop
deliver(targets, ok) ==
    IF ok < Len(targets)
    THEN [result |-> "threw", count |-> 0, sendLog |-> SubSeq(targets, 1, ok + 1)]
    ELSE [result |-> "ok", count |-> Len(targets), sendLog |-> targets]

sendToConnection(S, connectionId, ok) == deliver(registered(S, <<connectionId>>), ok)

sendToUser(S, userId, ok) ==
    deliver(registered(S, IF MapHas(S.userConnections, userId)
                          THEN S.userConnections[userId] ELSE <<>>), ok)

sendToChannel(S, channel, ok) ==
    deliver(registered(S, IF MapHas(S.channelConnections, channel)
                          THEN S.channelConnections[channel] ELSE <<>>), ok)

broadcast(S, ok) ==
    deliver([i \in 1..Len(S.connections) |-> S.connections[i].rec], ok)

\* what a call that only sends leaves behind in the manager
Sent(name, id, userId, channel, r) ==
    /\ op' = [NoOp EXCEPT !.name = name, !.id = id, !.userId = userId, !.channel = channel,
                          !.result = r.result, !.count = r.count, !.sendLog = r.sendLog]
    /\ prev' = NoSnapshot
    /\ UNCHANGED <<connections, userConnections, channelConnections, heartbeatTimer,
                   maxConnectionsPerUser, handles, closeRawCalls, publish, messaging>>
    /\ UNCHANGED <<persistence, chaos>>

\* a call that only sends, on transports that keep nothing
Publish(name, id, userId, channel, r) ==
    /\ Sent(name, id, userId, channel, r)
    /\ UNCHANGED wires

SendToConnection(connectionId, ok) ==
    /\ ok \in 0..1
    /\ Publish("sendToConnection", connectionId, Undefined, Undefined,
               sendToConnection(Indices, connectionId, ok))

SendToUser(userId, ok) ==
    /\ ok \in 0..Len(connections)
    /\ Publish("sendToUser", Undefined, userId, Undefined, sendToUser(Indices, userId, ok))

SendToChannel(channel, ok) ==
    /\ ok \in 0..Len(connections)
    /\ Publish("sendToChannel", Undefined, Undefined, channel,
               sendToChannel(Indices, channel, ok))

Broadcast(ok) ==
    /\ ok \in 0..Len(connections)
    /\ Publish("broadcast", Undefined, Undefined, Undefined, broadcast(Indices, ok))

\* the setInterval callback of startHeartbeat
HeartbeatTick(ok) ==
    /\ heartbeatTimer
    /\ ok \in 0..Len(connections)
    /\ Publish("heartbeat", Undefined, Undefined, Undefined, broadcast(Indices, ok))

\* connection.send(msg) on a record returned by addConnection
Send(rec, ok) ==
    /\ rec \in 1..Len(handles)
    /\ ok \in 0..1
    /\ Publish("send", handles[rec], Undefined, Undefined, deliver(<<rec>>, ok))

----------------------------------------------------------------------------
(* Sends on transports that keep what their sendFn is given *)

\* the send calls a caller can make: connection.send on a record it holds,
\* the four sends of the manager, and the tick of the heartbeat timer
SendCalls ==
    [name : {"send"}, rec : 1..MaxRecords, key : {Undefined}]
    \cup [name : {"sendToConnection"}, rec : {0}, key : ConnectionIds]
    \cup [name : {"sendToUser"}, rec : {0}, key : UserIds]
    \cup [name : {"sendToChannel"}, rec : {0}, key : Channels]
    \cup [name : {"broadcast", "heartbeat"}, rec : {0}, key : {Undefined}]

\* the transports whose sendFn the call reaches when none throws
targetsOf(S, call) ==
    CASE call.name = "send" -> deliver(<<call.rec>>, 1).sendLog
      [] call.name = "sendToConnection" -> sendToConnection(S, call.key, 1).sendLog
      [] call.name = "sendToUser" -> sendToUser(S, call.key, Len(S.connections)).sendLog
      [] call.name = "sendToChannel" -> sendToChannel(S, call.key, Len(S.connections)).sendLog
      [] OTHER -> broadcast(S, Len(S.connections)).sendLog

\* sendFn(message) on a transport that puts the frame first on its wire
received_first(w, rec, msg) == [w EXCEPT ![rec] = <<msg>> \o @]

\* sendFn(message) on a transport that keeps its frames: sendEvent and
\* sendMessage call it once, before they return
received(w, rec, msg) == [w EXCEPT ![rec] = Append(@, msg)]

\* the sendFn calls of one send, in the order of its log
RECURSIVE receivedAll(_, _, _)
receivedAll(w, log, msg) ==
    IF log = <<>> THEN w
    ELSE receivedAll(received(w, Head(log), msg), Tail(log), msg)

\* one send call, the issued + 1st; `ok` sendFn calls return before one
\* throws, after it has kept the frame
Transmit(call, ok) ==
    /\ issued < MaxSends
    /\ call.name = "send" => call.rec \in 1..Len(handles)
    /\ call.name = "heartbeat" => heartbeatTimer
    /\ ok \in 0..Len(targetsOf(Indices, call))
    /\ LET r == deliver(targetsOf(Indices, call), ok)
       IN  /\ Sent(call.name,
                   IF call.name = "send" THEN handles[call.rec]
                   ELSE IF call.name = "sendToConnection" THEN call.key ELSE Undefined,
                   IF call.name = "sendToUser" THEN call.key ELSE Undefined,
                   IF call.name = "sendToChannel" THEN call.key ELSE Undefined,
                   r)
           /\ issued' = issued + 1
           /\ wire' = receivedAll(wire, r.sendLog, issued + 1)
           /\ UNCHANGED sse

----------------------------------------------------------------------------
(* The SSE message of an event *)

\* a line of the message, as a reader of the event stream takes it apart: the
\* field before the first colon and the value after it; a line without a
\* colon is a field with an empty value, and the empty line has neither
Line(field, value) == [field |-> field, value |-> value]
BlankLine == Line("", "")

\* JSON.stringify of the object: one line
stringify(data) == "{\"timestamp\":" \o ToString(data.timestamp) \o "}"

\* typeof event.data === 'string' ? event.data : JSON.stringify(event.data),
\* by its lines
dataText(data) == IF data.type = "string" THEN data.lines ELSE <<stringify(data)>>

\* `data: ${data}\n`: the text after the first newline of data makes lines
\* of its own
dataLines(data) ==
    LET text == dataText(data)
    IN  <<Line("data", Head(text))>> \o [i \in 1..(Len(text) - 1) |-> Line(text[i + 1], "")]

\* JavaScript truthiness of an optional number: `if (event.retry)`
TruthyNumber(n) == n # <<>> /\ n[1] # 0

\* the message sendEvent builds and gives to sendFn, line by line
sendEvent(event) ==
    (IF Truthy(event.id) THEN <<Line("id", event.id)>> ELSE <<>>)
    \o (IF Truthy(event.event) THEN <<Line("event", event.event)>> ELSE <<>>)
    \o dataLines(event.data)
    \o (IF TruthyNumber(event.retry)
        THEN <<Line("retry", ToString(event.retry[1]))>> ELSE <<>>)
    \o <<BlankLine>>

\* connection.send(event) on a record returned by addConnection, whose
\* transport keeps the message
SendEvent(rec, event) ==
    /\ rec \in 1..Len(handles)
    /\ Sent("send", handles[rec], Undefined, Undefined, deliver(<<rec>>, 1))
    /\ sse' = [event |-> event, message |-> sendEvent(event)]
    /\ UNCHANGED <<issued, wire>>

----------------------------------------------------------------------------
(* PostgreSQLUnitOfWork *)

\* no value: the Result of an execute that has not returned, the rejection
\* of a connect that resolves
None == [kind |-> "none", text |-> ""]

\* what connect() rejects with and what an operation throws: an Error with a
\* message, or a value that is not an Error
Thrown == {[kind |-> "Error", text |-> "boom"], [kind |-> "string", text |-> "down"]}

\* error instanceof Error ? error.message : String(error)
messageOf(error) == error.text

\* Result.ok(value) / Result.fail(error)
Ok(value) == [kind |-> "success", text |-> value]
Fail(error) == [kind |-> "failure", text |-> error]

\* what an operation does: it resolves with a Result or it throws
Outcomes == {[settled |-> "resolves", result |-> Ok("done")],
             [settled |-> "resolves", result |-> Fail("invalid")]}
            \cup {[settled |-> "throws", result |-> error] : error \in Thrown}

\* begin(): history.push('begin'), connect unless connected, active = true;
\* a connect that rejects leaves begin after the push
begin(U, connectError) ==
    LET pushed == [U EXCEPT !.history = Append(@, "begin")]
    IN  IF ~U.connected /\ connectError # None
        THEN [threw |-> TRUE, error |-> connectError, state |-> pushed]
        ELSE [threw |-> FALSE, error |-> None,
              state |-> [pushed EXCEPT !.connected = TRUE, !.active = TRUE]]

\* commit() and rollback()
commit(U) == [U EXCEPT !.history = Append(@, "commit"), !.active = FALSE]
rollback(U) == [U EXCEPT !.history = Append(@, "rollback"), !.active = FALSE]

\* an execute whose begin threw lets the outer catch block run
beginFailed_rollsBack(U, error) ==
    [state |-> rollback(U), calls |-> <<"begin", "rollback">>, operations |-> 0,
     status |-> "returned", result |-> Fail(messageOf(error))]

\* execute, when begin threw: the inner catch block returns a failure
beginFailed(U, error) ==
    [state |-> U, calls |-> <<"begin">>, operations |-> 0,
     status |-> "returned", result |-> Fail(messageOf(error))]

\* an execute that commits what a failed operation left
afterOperation_alwaysCommits(U, outcome) ==
    [state |-> commit(U), calls |-> <<"commit">>,
     result |-> IF outcome.settled = "throws"
                THEN Fail(messageOf(outcome.result)) ELSE outcome.result]

\* execute, after `await operation()`: rollback for a failure and in the
\* outer catch block, commit otherwise; commit returns a success
afterOperation(U, outcome) ==
    IF outcome.settled = "throws"
    THEN [state |-> rollback(U), calls |-> <<"rollback">>,
          result |-> Fail(messageOf(outcome.result))]
    ELSE IF outcome.result.kind = "failure"
    THEN [state |-> rollback(U), calls |-> <<"rollback">>, result |-> outcome.result]
    ELSE [state |-> commit(U), calls |-> <<"commit">>, result |-> outcome.result]

\* unitOfWork.execute(operation) up to its return or to `await operation()`
Execute(connectError) ==
    /\ Len(executes) < MaxExecutes
    /\ unitOfWork.connected => connectError = None
    /\ LET b == begin(unitOfWork, connectError)
           r == IF b.threw
                THEN beginFailed(b.state, b.error)
                ELSE [state |-> b.state, calls |-> <<"begin">>, operations |-> 1,
                      status |-> "operation", result |-> None]
       IN  /\ unitOfWork' = r.state
           /\ executes' = Append(executes, [status |-> r.status, calls |-> r.calls,
                                            operations |-> r.operations,
                                            outcome |-> None, connectError |-> connectError,
                                            result |-> r.result, active |-> r.state.active,
                                            before |-> unitOfWork.active])
    /\ UNCHANGED <<realtime, chaos>>

\* the operation of an execute settles and the execute returns
OperationSettles(e, outcome) ==
    /\ e \in 1..Len(executes)
    /\ executes[e].status = "operation"
    /\ LET r == afterOperation(unitOfWork, outcome)
       IN  /\ unitOfWork' = r.state
           /\ executes' = [executes EXCEPT ![e] =
                              [@ EXCEPT !.status = "returned", !.calls = @ \o r.calls,
                                        !.outcome = outcome, !.result = r.result,
                                        !.active = r.state.active]]
    /\ UNCHANGED <<realtime, chaos>>

\* connectionManager.disconnect()
Disconnect ==
    /\ unitOfWork.connected
    /\ unitOfWork' = [unitOfWork EXCEPT !.connected = FALSE]
    /\ UNCHANGED <<realtime, executes, chaos>>

----------------------------------------------------------------------------
(* ChaosEngine: the circuit-breaker scenario *)

\* CircuitBreakerConfig.failureThreshold and resetTimeMs, in ticks of the clock
FailureThresholds == {1, 2}
ResetTimes == {1, 2}

\* scenario.probability and the values of Math.random(), in tenths:
\* Math.random() is at least 0 and less than 1
Certain == 10
Randoms == {0, 9}

\* a reset test that resets when exactly resetTimeMs has passed
shouldReset_atLimit(state, now, config) ==
    state.isOpen /\ now - state.lastFailure >= config.resetTimeMs

\* state.isOpen && now - state.lastFailure > config.resetTimeMs
shouldReset(state, now, config) ==
    state.isOpen /\ now - state.lastFailure > config.resetTimeMs

\* checkCircuitBreaker(name, config) at time now: threw tells whether it
\* threw 'Circuit breaker open'
checkCircuitBreaker(circuit, now, config) ==
    LET created == IF circuit.exists THEN circuit ELSE [NoCircuit EXCEPT !.exists = TRUE]
        state == IF shouldReset(created, now, config)
                 THEN [created EXCEPT !.isOpen = FALSE, !.failures = 0]
                 ELSE created
        counted == [state EXCEPT !.failures = @ + 1, !.lastFailure = now]
    IN  IF state.isOpen
        THEN [threw |-> TRUE, circuit |-> state]
        ELSE [threw |-> FALSE,
              circuit |-> [counted EXCEPT
                              !.isOpen = counted.failures >= config.failureThreshold]]

\* maybeInjectChaos(scenarioName) for the circuit-breaker scenario
maybeInjectChaos(C, random) ==
    IF ~C.enabled THEN [threw |-> FALSE, circuit |-> C.circuit]
    ELSE IF ~C.scenario.registered \/ ~C.scenario.enabled
    THEN [threw |-> FALSE, circuit |-> C.circuit]
    ELSE IF random > C.scenario.probability THEN [threw |-> FALSE, circuit |-> C.circuit]
    ELSE checkCircuitBreaker(C.circuit, C.now, C.scenario)

\* chaosEngine.registerScenario of an enabled circuit-breaker scenario with
\* probability 1
RegisterScenario(failureThreshold, resetTimeMs) ==
    /\ ~chaos.scenario.registered
    /\ chaos' = [chaos EXCEPT !.scenario =
                    [registered |-> TRUE, enabled |-> TRUE, probability |-> Certain,
                     failureThreshold |-> failureThreshold, resetTimeMs |-> resetTimeMs]]
    /\ UNCHANGED <<realtime, persistence>>

\* chaosEngine.maybeInjectChaos(name) for the registered scenario
MaybeInjectChaos(random) ==
    /\ chaos.scenario.registered
    /\ Len(chaos.calls) < MaxCalls
    /\ LET r == maybeInjectChaos(chaos, random)
       IN  chaos' = [chaos EXCEPT !.circuit = r.circuit,
                                  !.calls = Append(@, [at |-> chaos.now, threw |-> r.threw])]
    /\ UNCHANGED <<realtime, persistence>>

\* time passes: Date.now() returns a later value
Clock ==
    /\ chaos.now < MaxTime
    /\ chaos' = [chaos EXCEPT !.now = @ + 1]
    /\ UNCHANGED <<realtime, persistence>>

----------------------------------------------------------------------------
(* A publish whose sendFn calls re-enter the manager *)

\* what a sendFn does before it returns: nothing, or a call back into the
\* manager that registers or removes a connection
Callbacks ==
    {[kind |-> "none", id |-> Undefined, userId |-> Undefined, channel |-> Undefined]}
    \cup {[kind |-> "addConnection", id |-> id, userId |-> u, channel |-> c] :
             id \in ConnectionIds, u \in UserArgs, c \in ChannelArgs}
    \cup {[kind |-> "removeConnection", id |-> id, userId |-> Undefined, channel |-> Undefined] :
             id \in ConnectionIds}

\* the collection a running loop iterates, as it is now: broadcast iterates
\* this.connections.values(); sendToUser and sendToChannel iterate the Set
\* object they got from the map, which removeConnection drops from the map
\* once it is empty and nothing fills again
iterated(S, p) ==
    IF p.name = "broadcast"
    THEN [i \in 1..Len(S.connections) |-> S.connections[i].id]
    ELSE LET m == IF p.name = "sendToUser" THEN S.userConnections ELSE S.channelConnections
         IN  IF p.attached /\ MapHas(m, p.key) THEN m[p.key] ELSE <<>>

\* an iterator that stays where it is when an entry behind it is deleted
cursorAfter_notAdjusted(before, after, visited) == visited

\* where the iterator of a Set or Map stands after the collection changed:
\* behind the entries it has visited that are still there
cursorAfter(before, after, visited) ==
    Cardinality({i \in 1..visited : before[i] \in Range(after)})

\* the state after the sendFn of a target has run the callback; rec names
\* the transport a callback's addConnection registers
callback(S, cb, rec, max) ==
    IF cb.kind = "addConnection"
    THEN addConnection(S, cb.id, rec, cb.userId, cb.channel, max)
    ELSE IF cb.kind = "removeConnection"
    THEN removeConnection(S, cb.id)
    ELSE [result |-> "ok", state |-> S]

\* the first lines of sendToUser(userId, _), sendToChannel(channel, _) and
\* broadcast(_): get the Set, return 0 when there is none, else enter the loop
StartPublish(name, key) ==
    /\ publish.name = "idle"
    /\ LET p == [NoPublish EXCEPT !.name = name, !.key = key, !.attached = TRUE]
           targets == registered(Indices, iterated(Indices, p))
       IN  IF name # "broadcast" /\ iterated(Indices, p) = <<>>
           THEN /\ op' = [NoOp EXCEPT !.name = name,
                                       !.userId = IF name = "sendToUser" THEN key ELSE Undefined,
                                       !.channel = IF name = "sendToChannel" THEN key ELSE Undefined]
                /\ UNCHANGED publish
           ELSE /\ publish' = [p EXCEPT !.start = Range(targets)]
                /\ UNCHANGED op
    /\ prev' = NoSnapshot
    /\ UNCHANGED <<wires, persistence, chaos>>
    /\ UNCHANGED <<connections, userConnections, channelConnections, heartbeatTimer,
                   maxConnectionsPerUser, handles, closeRawCalls, messaging>>

\* one pass of the loop: the next entry of the collection; sendToConnection
\* finds no record for a connectionId that is not a key of connections and
\* returns false, else the record's sendFn runs, with its callback, and the
\* delivery is counted
Visit(cb) ==
    /\ publish.name # "idle"
    /\ LET before == iterated(Indices, publish)
       IN  /\ publish.cursor < Len(before)
           /\ LET connectionId == before[publish.cursor + 1]
              IN  IF ~connectionsHas(connections, connectionId)
                  THEN /\ cb.kind = "none"
                       /\ publish' = [publish EXCEPT !.cursor = @ + 1]
                       /\ UNCHANGED <<connections, userConnections, channelConnections,
                                      handles, closeRawCalls>>
                  ELSE LET target == connectionsGet(connections, connectionId).rec
                           rec == Len(handles) + 1
                           r == callback(Indices, cb, rec, maxConnectionsPerUser)
                           accepted == cb.kind = "addConnection"
                           dropped == IF cb.kind = "removeConnection"
                                         /\ connectionsHas(connections, cb.id)
                                      THEN {connectionsGet(connections, cb.id).rec}
                                      ELSE {}
                           after == iterated(r.state, publish)
                       IN  /\ r.result = "ok"
                           /\ accepted => Len(handles) < MaxRecords
                           /\ SetIndices(r.state)
                           /\ handles' = IF accepted THEN Append(handles, cb.id) ELSE handles
                           /\ closeRawCalls' = IF accepted THEN Append(closeRawCalls, 0)
                                                           ELSE closeRawCalls
                           /\ publish' = [publish EXCEPT
                                  !.cursor = cursorAfter(before, after, publish.cursor + 1),
                                  !.attached = publish.name = "broadcast" \/ after # <<>>,
                                  !.sent = @ + 1,
                                  !.sendLog = Append(@, target),
                                  !.added = IF accepted THEN @ \cup {rec} ELSE @,
                                  !.removed = @ \cup dropped]
    /\ prev' = NoSnapshot
    /\ UNCHANGED <<wires, persistence, chaos>>
    /\ UNCHANGED <<heartbeatTimer, maxConnectionsPerUser, op, messaging>>

\* the loop has no entry left: return sent
FinishPublish ==
    /\ publish.name # "idle"
    /\ publish.cursor >= Len(iterated(Indices, publish))
    /\ op' = [NoOp EXCEPT !.name = publish.name,
                          !.userId = IF publish.name = "sendToUser" THEN publish.key ELSE Undefined,
                          !.channel = IF publish.name = "sendToChannel" THEN publish.key ELSE Undefined,
                          !.count = publish.sent, !.sendLog = publish.sendLog,
                          !.removed = publish.removed]
    /\ publish' = NoPublish
    /\ prev' = NoSnapshot
    /\ UNCHANGED <<wires, persistence, chaos>>
    /\ UNCHANGED <<connections, userConnections, channelConnections, heartbeatTimer,
                   maxConnectionsPerUser, handles, closeRawCalls, messaging>>

----------------------------------------------------------------------------
(* WebSocketManager: inbound messages *)

\* the frame the catch block and the no-handler branch send
ErrorFrame(error) == [type |-> "error", error |-> error]

\* `No handler found for message type: ${message.type}`
noHandlerFrame(type) == ErrorFrame("No handler found for message type: " \o type)

\* a size check that rejects a frame of the maximum size
tooLarge_atLimit(frame, max) == frame.length >= max

\* rawMessage.length > this.options.maxMessageSize
tooLarge(frame, max) == frame.length > max

\* what the try block throws before it looks for a handler, "" for nothing:
\* JSON.parse, then message.type, then the size check, in this order
validationError(frame, max) ==
    IF frame.json = "invalid" THEN "SyntaxError: Unexpected token"
    ELSE IF frame.json = "null" THEN "TypeError: Cannot read properties of null"
    ELSE IF frame.json = "untyped" \/ frame.type = "" THEN "Message type is required"
    ELSE IF tooLarge(frame, max) THEN "Message size exceeds maximum allowed size"
    ELSE ""

\* a catch block that swallows the error and sends nothing
catchBlock_silent(rec, error, sent, handled, throws) ==
    [result |-> "ok", frames |-> sent, sendLog |-> [i \in 1..Len(sent) |-> rec],
     handled |-> handled, rec |-> rec]

\* a catch block that sends its error frame twice
catchBlock_twice(rec, error, sent, handled, throws) ==
    [result |-> IF throws THEN "rejected" ELSE "ok",
     frames |-> sent \o <<ErrorFrame(error), ErrorFrame(error)>>,
     sendLog |-> [i \in 1..(Len(sent) + 2) |-> rec],
     handled |-> handled, rec |-> rec]

\* the catch block: connection.send of an error frame on the record the call
\* got at its start; a sendFn that throws here rejects the promise
catchBlock(rec, error, sent, handled, throws) ==
    [result |-> IF throws THEN "rejected" ELSE "ok",
     frames |-> Append(sent, ErrorFrame(error)),
     sendLog |-> [i \in 1..(Len(sent) + 1) |-> rec],
     handled |-> handled, rec |-> rec]

\* handleMessage that goes on without a connection
handleMessage_withoutConnection(S, handlers, max, connectionId, frame, outcome, throws) ==
    [result |-> "ok", frames |-> <<>>, sendLog |-> <<>>,
     handled |-> IF MapHas(handlers, frame.type) THEN <<frame.type>> ELSE <<>>, rec |-> 0]

\* handleMessage that puts a message aside while an earlier call on the same
\* connection awaits its handler
handleMessage_afterPending(S, handlers, max, connectionId, frame, outcome, throws) ==
    [result |-> IF outcome = "pending" THEN "pending" ELSE "ok",
     frames |-> <<>>, sendLog |-> <<>>,
     handled |-> IF /\ MapHas(handlers, frame.type)
                    /\ \A i \in 1..Len(pending) : pending[i].id # connectionId
                 THEN <<frame.type>> ELSE <<>>,
     rec |-> IF connectionsHas(S.connections, connectionId)
             THEN connectionsGet(S.connections, connectionId).rec ELSE 0]

\* handleMessage(connectionId, rawMessage) up to its return or its await:
\* outcome is what the handler does when it is called, throws[k] whether the
\* k-th sendFn call of this call throws
handleMessage(S, handlers, max, connectionId, frame, outcome, throws) ==
    IF ~connectionsHas(S.connections, connectionId)
    THEN [result |-> "ok", frames |-> <<>>, sendLog |-> <<>>, handled |-> <<>>, rec |-> 0]
    ELSE LET rec == connectionsGet(S.connections, connectionId).rec
             error == validationError(frame, max)
         IN  IF error # ""
             THEN catchBlock(rec, error, <<>>, <<>>, throws[1])
             ELSE IF MapHas(handlers, frame.type)
             THEN IF outcome = "throws"
                  THEN catchBlock(rec, "HandlerError", <<>>, <<frame.type>>, throws[1])
                  ELSE [result |-> IF outcome = "pending" THEN "pending" ELSE "ok",
                        frames |-> <<>>, sendLog |-> <<>>,
                        handled |-> <<frame.type>>, rec |-> rec]
             ELSE IF throws[1]
             THEN catchBlock(rec, "SendError", <<noHandlerFrame(frame.type)>>, <<>>, throws[2])
             ELSE [result |-> "ok", frames |-> <<noHandlerFrame(frame.type)>>,
                   sendLog |-> <<rec>>, handled |-> <<>>, rec |-> rec]

\* what the handler of a call can do: it is called only on the path that
\* finds it
outcomes(connectionId, frame) ==
    IF handleMessage(Indices, messageHandlers, maxMessageSize, connectionId, frame,
                     "returns", [k \in 1..2 |-> FALSE]).handled = <<>>
    THEN {"returns"}
    ELSE {"returns", "throws", "pending"}

\* what the sendFn calls of a call can do: at most as many as the call makes
\* when each of them throws
throwing(connectionId, frame, outcome) ==
    LET n == Len(handleMessage(Indices, messageHandlers, maxMessageSize, connectionId,
                               frame, outcome, [k \in 1..2 |-> TRUE]).frames)
    IN  {throws \in [1..2 -> BOOLEAN] : \A k \in 1..2 : k > n => ~throws[k]}

\* this.messageHandlers.set that leaves a handler that is there in its place
onMessage_keepsFirst(handlers, type, handler) ==
    IF MapHas(handlers, type) THEN handlers ELSE MapSet(handlers, type, handler)

\* this.messageHandlers.set(type, handler)
onMessage(handlers, type, handler) == MapSet(handlers, type, handler)

\* manager.onMessage(type, handler)
OnMessage(type, handler) ==
    /\ messageHandlers' = onMessage(messageHandlers, type, handler)
    /\ op' = [NoOp EXCEPT !.name = "onMessage", !.id = type, !.handler = handler]
    /\ prev' = NoSnapshot
    /\ UNCHANGED <<wires, persistence, chaos>>
    /\ UNCHANGED <<connections, userConnections, channelConnections, heartbeatTimer,
                   maxConnectionsPerUser, handles, closeRawCalls, publish,
                   maxMessageSize, pending>>

\* manager.handleMessage(connectionId, rawMessage), until the promise settles
\* or the call awaits the promise of its handler; a handler that is not
\* called and a sendFn call that is not made are given no behaviour
Receive(connectionId, frame, outcome, throws, limit) ==
    /\ LET r == handleMessage(Indices, messageHandlers, maxMessageSize,
                              connectionId, frame, outcome, throws)
       IN  /\ r.handled = <<>> => outcome = "returns"
           /\ \A k \in 1..2 : k > Len(r.frames) => ~throws[k]
           /\ r.result = "pending" => Len(pending) < limit
           /\ pending' = IF r.result = "pending"
                         THEN Append(pending, [rec |-> r.rec, id |-> connectionId])
                         ELSE pending
           /\ op' = [NoOp EXCEPT !.name = "handleMessage", !.id = connectionId,
                                 !.rec = r.rec, !.result = r.result, !.frame = frame,
                                 !.frames = r.frames, !.sendLog = r.sendLog,
                                 !.handled = r.handled,
                                 !.invoked = [i \in 1..Len(r.handled) |->
                                                 messageHandlers[r.handled[i]]],
                                 !.outcome = IF r.handled = <<>> THEN "none" ELSE outcome]
    /\ prev' = NoSnapshot
    /\ UNCHANGED <<wires, persistence, chaos>>
    /\ UNCHANGED <<connections, userConnections, channelConnections, heartbeatTimer,
                   maxConnectionsPerUser, handles, closeRawCalls, publish,
                   messageHandlers, maxMessageSize>>

\* handleMessage of a caller that lets at most MaxPending calls await
HandleMessage(connectionId, frame, outcome, throws) ==
    Receive(connectionId, frame, outcome, throws, MaxPending)

\* the promise of a handler settles and the handleMessage call that awaited
\* it goes on: to its end, or into the catch block when the promise rejected
HandlerSettles(i, rejects, throws) ==
    /\ i \in 1..Len(pending)
    /\ throws => rejects
    /\ LET call == pending[i]
           r == IF rejects
                THEN catchBlock(call.rec, "HandlerError", <<>>, <<>>, throws)
                ELSE [result |-> "ok", frames |-> <<>>, sendLog |-> <<>>]
       IN  op' = [NoOp EXCEPT !.name = "handlerSettled", !.id = call.id, !.rec = call.rec,
                              !.result = r.result, !.frames = r.frames,
                              !.sendLog = r.sendLog,
                              !.outcome = IF rejects THEN "rejects" ELSE "resolves"]
    /\ pending' = SubSeq(pending, 1, i - 1) \o SubSeq(pending, i + 1, Len(pending))
    /\ prev' = NoSnapshot
    /\ UNCHANGED <<wires, persistence, chaos>>
    /\ UNCHANGED <<connections, userConnections, channelConnections, heartbeatTimer,
                   maxConnectionsPerUser, handles, closeRawCalls, publish,
                   messageHandlers, maxMessageSize>>

----------------------------------------------------------------------------

\* Registration and removal by callers whose closeFn returns normally
Next ==
    \/ \E id \in ConnectionIds, u \in UserArgs, c \in ChannelArgs : AddConnection(id, u, c)
    \/ \E id \in ConnectionIds : RemoveConnection(id)
    \/ \E rec \in 1..MaxRecords : Close(rec, FALSE)
    \/ CloseAll(Len(connections))

Spec == Init /\ [][Next]_vars

\* Registration, removal and publishing, with closeFn and sendFn calls that throw
PublishNext ==
    \/ Next
    \/ \E rec \in 1..MaxRecords : Close(rec, TRUE)
    \/ \E ok \in 0..Cardinality(ConnectionIds) : ok < Len(connections) /\ CloseAll(ok)
    \/ \E id \in ConnectionIds, ok \in 0..1 : SendToConnection(id, ok)
    \/ \E u \in UserIds, ok \in 0..Cardinality(ConnectionIds) : SendToUser(u, ok)
    \/ \E c \in Channels, ok \in 0..Cardinality(ConnectionIds) : SendToChannel(c, ok)
    \/ \E ok \in 0..Cardinality(ConnectionIds) : Broadcast(ok)
    \/ \E ok \in 0..Cardinality(ConnectionIds) : HeartbeatTick(ok)
    \/ \E rec \in 1..MaxRecords, ok \in 0..1 : Send(rec, ok)

PublishSpec == Init /\ [][PublishNext]_vars

\* Registration, removal by removeConnection, and the manager's sends, with
\* sendFn calls that throw
DeliveryNext ==
    \/ \E id \in ConnectionIds, u \in UserArgs, c \in ChannelArgs : AddConnection(id, u, c)
    \/ \E id \in ConnectionIds : RemoveConnection(id)
    \/ \E id \in ConnectionIds, ok \in 0..1 : SendToConnection(id, ok)
    \/ \E u \in UserIds, ok \in 0..Cardinality(ConnectionIds) : SendToUser(u, ok)
    \/ \E c \in Channels, ok \in 0..Cardinality(ConnectionIds) : SendToChannel(c, ok)
    \/ \E ok \in 0..Cardinality(ConnectionIds) : Broadcast(ok)
    \/ \E ok \in 0..Cardinality(ConnectionIds) : HeartbeatTick(ok)

DeliverySpec == Init /\ [][DeliveryNext]_vars

\* WebSocketManager: registration, removal, handlers and inbound messages;
\* handleMessage reads neither the user nor the channel of a connection
MessageNext ==
    \/ \E id \in ConnectionIds : AddConnection(id, Undefined, Undefined)
    \/ \E id \in ConnectionIds : RemoveConnection(id)
    \/ \E type \in HandlerTypes : OnMessage(type, "h1")
    \/ \E id \in ConnectionIds, frame \in Frames :
          \E outcome \in outcomes(id, frame) :
             \E throws \in throwing(id, frame, outcome) :
                HandleMessage(id, frame, outcome, throws)
    \/ \E i \in 1..MaxPending, rejects \in BOOLEAN, throws \in BOOLEAN :
             HandlerSettles(i, rejects, throws)

MessageSpec == Init /\ [][MessageNext]_vars

\* the inbound frames that are not too large and that JSON.parse accepts
SmallFrames ==
    {frame \in Frames : frame.length \in MaxMessageSizeOptions
                        /\ frame.json \in {"typed", "untyped"}}

\* WebSocketManager: handlers that are registered and replaced, and inbound
\* messages whose handlers stay suspended while further messages come in
DispatchNext ==
    \/ \E id \in ConnectionIds : AddConnection(id, Undefined, Undefined)
    \/ \E type \in MessageTypes, handler \in Handlers : OnMessage(type, handler)
    \/ \E id \in ConnectionIds, frame \in SmallFrames :
          \E outcome \in outcomes(id, frame) :
             Receive(id, frame, outcome, [k \in 1..2 |-> FALSE], MaxInFlight)
    \/ \E i \in 1..MaxInFlight, rejects \in BOOLEAN : HandlerSettles(i, rejects, FALSE)

DispatchSpec == Init /\ [][DispatchNext]_vars

\* Registration, closeAll, the heartbeat timer and the manager's sends, by
\* callers whose closeFn and sendFn return normally
ShutdownNext ==
    \/ \E id \in ConnectionIds, u \in UserArgs, c \in ChannelArgs : AddConnection(id, u, c)
    \/ CloseAll(Len(connections))
    \/ HeartbeatTick(Len(connections))
    \/ Broadcast(Len(connections))
    \/ \E id \in ConnectionIds : SendToConnection(id, 1)
    \/ \E u \in UserIds : SendToUser(u, Len(connections))
    \/ \E c \in Channels : SendToChannel(c, Len(connections))

ShutdownSpec == Init /\ [][ShutdownNext]_vars

\* PostgreSQLUnitOfWork: execute calls, which may overlap, on a connection
\* manager whose connect may reject
UnitOfWorkNext ==
    \/ \E connectError \in Thrown \cup {None} : Execute(connectError)
    \/ \E e \in 1..MaxExecutes, outcome \in Outcomes : OperationSettles(e, outcome)
    \/ Disconnect

UnitOfWorkSpec == Init /\ [][UnitOfWorkNext]_vars

\* ChaosEngine: a circuit-breaker scenario, calls of maybeInjectChaos and
\* the clock
ChaosNext ==
    \/ \E failureThreshold \in FailureThresholds, resetTimeMs \in ResetTimes :
          RegisterScenario(failureThreshold, resetTimeMs)
    \/ \E random \in Randoms : MaybeInjectChaos(random)
    \/ Clock

ChaosSpec == Init /\ [][ChaosNext]_vars

\* Registration, removal and sends on transports that keep their frames,
\* with sendFn calls that throw
WireNext ==
    \/ \E id \in ConnectionIds : AddConnection(id, "u1", "x")
    \/ \E id \in ConnectionIds : AddConnection(id, Undefined, Undefined)
    \/ \E id \in ConnectionIds : RemoveConnection(id)
    \/ \E call \in SendCalls, ok \in 0..Cardinality(ConnectionIds) : Transmit(call, ok)

WireSpec == Init /\ [][WireNext]_vars

\* SSEManager: registration and connection.send with the events a caller
\* can make
EncodingNext ==
    \/ \E id \in ConnectionIds : AddConnection(id, Undefined, Undefined)
    \/ \E rec \in 1..MaxRecords, event \in Events : SendEvent(rec, event)

EncodingSpec == Init /\ [][EncodingNext]_vars

\* Registration, removal and publishes whose sendFn calls re-enter the
\* manager; the callers of the manager run when no loop is on the stack
ReentrantNext ==
    \/ /\ publish.name = "idle"
       /\ \/ \E id \in ConnectionIds, u \in UserArgs, c \in ChannelArgs : AddConnection(id, u, c)
          \/ \E id \in ConnectionIds : RemoveConnection(id)
    \/ \E u \in UserIds : StartPublish("sendToUser", u)
    \/ \E c \in Channels : StartPublish("sendToChannel", c)
    \/ StartPublish("broadcast", Undefined)
    \/ \E cb \in Callbacks : Visit(cb)
    \/ FinishPublish

ReentrantSpec == Init /\ [][ReentrantNext]_vars

----------------------------------------------------------------------------
(* Properties of registration and removal *)

\* the ids registered for a user / on a channel, as the maps hold them
byUser(u) == IF MapHas(userConnections, u) THEN Range(userConnections[u]) ELSE {}
byChannel(c) == IF MapHas(channelConnections, c) THEN Range(channelConnections[c]) ELSE {}

AddRejected(o) == o.name = "addConnection" /\ o.result # "ok"
AddAccepted(o) == o.name = "addConnection" /\ o.result = "ok"

\* C1: in every reachable state, whatever addConnection, removeConnection,
\* close and closeAll calls were made, getUserConnectionCount(u) is at most
\* maxConnectionsPerUser for every user u.
C1_QuotaNeverExceeded ==
    \A u \in UserIds \cup DOMAIN userConnections :
        getUserConnectionCount(Indices, u) <= maxConnectionsPerUser

\* two addConnection calls for one user back to back with one slot left: the
\* first was accepted and is registered, the second was rejected
C1_Witness ==
    /\ AddRejected(op)
    /\ Truthy(op.userId)
    /\ Len(userConnections[op.userId]) = maxConnectionsPerUser
    /\ \E i \in 1..Len(connections) :
          /\ connections[i].rec = op.rec - 1
          /\ connections[i].userId = op.userId

\* C2: an addConnection for user u is accepted whenever u has fewer than
\* maxConnectionsPerUser registered connections, and once u has
\* maxConnectionsPerUser of them the next addConnection for u with a fresh id
\* is rejected with the quota error.
C2_QuotaBoundary ==
    [][(op'.name = "addConnection" /\ Truthy(op'.userId)) =>
          /\ Cardinality(byUser(op'.userId)) < maxConnectionsPerUser => op'.result = "ok"
          /\ (/\ Cardinality(byUser(op'.userId)) = maxConnectionsPerUser
              /\ ~connectionsHas(connections, op'.id))
                 => op'.result = "MaximumConnectionsExceeded"]_vars

\* the user is exactly at the quota and an addConnection with an id that is
\* not registered has just been rejected
C2_Witness ==
    /\ AddRejected(op)
    /\ op.result = "MaximumConnectionsExceeded"
    /\ ~connectionsHas(connections, op.id)
    /\ Cardinality(byUser(op.userId)) = maxConnectionsPerUser

\* C3 as claimed: a rejected addConnection leaves the three maps as they
\* were, the rejected id is not retrievable afterwards, and the call invokes
\* neither sendFn nor closeFn of the transport it was given.
C3_RejectedIdNotRetrievable ==
    [][AddRejected(op') =>
          /\ Indices' = Indices
          /\ ~connectionsHas(connections', op'.id)
          /\ op'.sendLog = <<>> /\ op'.closeLog = <<>>
          /\ closeRawCalls' = closeRawCalls]_vars

\* C3 amended: a rejected addConnection leaves the three maps as they were,
\* the rejected id is retrievable afterwards only if it was registered before
\* the call, and then with the record it had, and the call invokes neither
\* sendFn nor closeFn of the transport it was given.
C3_RejectionChangesNothing ==
    [][AddRejected(op') =>
          /\ Indices' = Indices
          /\ ~connectionsHas(connections, op'.id) => ~connectionsHas(connections', op'.id)
          /\ \A i \in 1..Len(connections') : connections'[i].rec # op'.rec
          /\ op'.sendLog = <<>> /\ op'.closeLog = <<>>
          /\ closeRawCalls' = closeRawCalls]_vars

\* an addConnection with an unregistered id was rejected while other
\* connections are registered on a user and a channel
C3_Witness ==
    /\ AddRejected(op)
    /\ ~connectionsHas(connections, op.id)
    /\ DOMAIN userConnections # {}
    /\ DOMAIN channelConnections # {}

\* C4: addConnection with an id that is a key of connections fails and
\* leaves the existing record and the three maps unchanged (whichever error
\* the failure carries).
C4_DuplicateIdRejected ==
    [][(op'.name = "addConnection" /\ connectionsHas(connections, op'.id)) =>
          /\ op'.result # "ok"
          /\ Indices' = Indices]_vars

\* C5: every id in a per-user set byUser[u] or per-channel set byChannel[c]
\* is a key of connections whose record has userId u, respectively channel c.
C5_NoStaleIndexEntry ==
    /\ \A u \in DOMAIN userConnections : \A id \in byUser(u) :
          /\ connectionsHas(connections, id)
          /\ connectionsGet(connections, id).userId = u
    /\ \A c \in DOMAIN channelConnections : \A id \in byChannel(c) :
          /\ connectionsHas(connections, id)
          /\ connectionsGet(connections, id).channel = c

\* C6: for every id in connections, a record with a userId is a member of
\* byUser[userId] and a record with a channel is a member of
\* byChannel[channel].
C6_RecordsAreIndexed ==
    \A i \in 1..Len(connections) :
        /\ Truthy(connections[i].userId) => connections[i].id \in byUser(connections[i].userId)
        /\ Truthy(connections[i].channel) => connections[i].id \in byChannel(connections[i].channel)

\* a user has two registered records, both on a channel
C6_Witness ==
    /\ Len(connections) = 2
    /\ \A i \in 1..2 : Truthy(connections[i].userId) /\ Truthy(connections[i].channel)
    /\ connections[1].userId = connections[2].userId

\* C7: the per-user and per-channel maps never hold an empty set.
C7_NoEmptySet ==
    /\ \A u \in DOMAIN userConnections : Len(userConnections[u]) > 0
    /\ \A c \in DOMAIN channelConnections : Len(channelConnections[c]) > 0

\* the last connection of a user and of a channel has just been removed and
\* both keys are gone from their maps
C7_Witness ==
    /\ op.name = "removeConnection"
    /\ Truthy(op.userId) /\ ~MapHas(userConnections, op.userId)
    /\ Truthy(op.channel) /\ ~MapHas(channelConnections, op.channel)

\* C8: removeConnection never fails, removeConnection of an id that is not
\* registered changes none of the three maps, and after removeConnection(id)
\* the id is not registered, so that a second and every later
\* removeConnection(id) leaves what the first one left.
C8_RemoveIdempotent ==
    [][op'.name = "removeConnection" =>
          /\ op'.result = "ok"
          /\ ~connectionsHas(connections', op'.id)
          /\ ~connectionsHas(connections, op'.id) => Indices' = Indices
          /\ (op.name = "removeConnection" /\ op.id = op'.id) => Indices' = Indices]_vars

\* removeConnection of an id that was registered earlier, is no longer
\* registered and found nothing to remove, with other records registered
C8_Witness ==
    /\ op.name = "removeConnection"
    /\ op.count = 0
    /\ \E rec \in 1..Len(handles) : handles[rec] = op.id
    /\ Len(connections) > 0

\* C9: however often close() is called on a record, its transport's closeFn
\* is invoked once.
C9_CloseRawOnce ==
    \A rec \in 1..Len(closeRawCalls) : closeRawCalls[rec] <= 1

\* C10: a successful addConnection(id, ...) immediately followed by
\* removeConnection(id) restores the three maps to what they were before the
\* addConnection.
C10_AddThenRemoveRestores ==
    [][(AddAccepted(op) /\ op'.name = "removeConnection" /\ op'.id = op.id) =>
          Indices' = prev]_vars

----------------------------------------------------------------------------
(* Properties of publishing *)

\* the calls the manager makes to deliver a message or a heartbeat
ManagerSends == {"sendToConnection", "sendToUser", "sendToChannel", "broadcast", "heartbeat"}
MultiTargetSends == {"sendToUser", "sendToChannel", "broadcast"}

\* the transports of the records that are registered
registeredRecs == {connections[i].rec : i \in 1..Len(connections)}

\* C11: removeConnection(id) leaves id unregistered, id stays unregistered
\* until an addConnection(id) is accepted, and while id is unregistered
\* sendToConnection(id) returns false without a sendFn call and every
\* sendToUser, sendToChannel, broadcast and heartbeat invokes the sendFn of
\* registered records only and counts no other.
C11_RemovedNotTargeted ==
    [][/\ op'.name = "removeConnection" => ~connectionsHas(connections', op'.id)
       /\ \A id \in ConnectionIds :
             (~connectionsHas(connections, id) /\ ~(AddAccepted(op') /\ op'.id = id))
                => ~connectionsHas(connections', id)
       /\ op'.name \in ManagerSends =>
             /\ Range(op'.sendLog) \subseteq registeredRecs
             /\ op'.count <= Len(op'.sendLog)
             /\ (op'.name = "sendToConnection" /\ ~connectionsHas(connections, op'.id))
                   => (op'.result = "ok" /\ op'.count = 0 /\ op'.sendLog = <<>>)]_vars

\* sendToConnection(id) for an id that was registered and has been removed
\* returned false while another connection is registered
C11_Witness ==
    /\ op.name = "sendToConnection"
    /\ ~connectionsHas(connections, op.id)
    /\ \E rec \in 1..Len(handles) : handles[rec] = op.id
    /\ op.count = 0
    /\ Len(connections) > 0

\* C12: a closeAll() that returns has invoked closeFn of every registered
\* record and leaves connections, the per-user map and the per-channel map
\* empty and the heartbeat timer cleared, and once the timer is cleared no
\* heartbeat is sent.
C12_CloseAllEmptiesEverything ==
    [][/\ (op'.name = "closeAll" /\ op'.result = "ok") =>
             /\ registeredRecs \subseteq Range(op'.closeLog)
             /\ connections' = <<>>
             /\ \A u \in UserIds : getUserConnectionCount(Indices', u) = 0
             /\ \A c \in Channels : getChannelConnectionCount(Indices', c) = 0
             /\ ~heartbeatTimer'
       /\ ~heartbeatTimer => (~heartbeatTimer' /\ op'.name # "heartbeat")]_vars

\* C13: sendToUser, sendToChannel and broadcast never raise: the sendFn of
\* every target is invoked whether or not another target's sendFn raised,
\* and the count is the number of sendFn calls that returned.
C13_MultiTargetTotal ==
    [][op'.name \in MultiTargetSends =>
          /\ op'.result = "ok"
          /\ op'.count = Len(op'.sendLog)
          /\ op'.name = "broadcast" => Range(op'.sendLog) = registeredRecs]_vars

\* C14: after a send during which a sendFn raised, the record whose sendFn
\* raised is registered nowhere: not in connections, not in a per-user set,
\* not in a per-channel set.
C14_FailedSendRemoves ==
    [][(op'.name \in ManagerSends \cup {"send"} /\ op'.result = "threw") =>
          LET failed == op'.sendLog[Len(op'.sendLog)]
          IN  /\ failed \notin {connections'[i].rec : i \in 1..Len(connections')}
              /\ \A u \in DOMAIN userConnections' :
                    handles[failed] \notin Range(userConnections'[u])
              /\ \A c \in DOMAIN channelConnections' :
                    handles[failed] \notin Range(channelConnections'[c])]_vars

\* C15: a running sendToUser, sendToChannel or broadcast never invokes the
\* sendFn of a record that was registered after the call started, and counts
\* no more deliveries than it had targets when it started.
C15_SnapshotOnAdd ==
    /\ publish.added \cap Range(publish.sendLog) = {}
    /\ publish.sent <= Cardinality(publish.start)

\* C16: a running sendToUser, sendToChannel or broadcast never invokes the
\* sendFn of a record that was removed since the call started, counts the
\* sendFn calls it made and no other, and returns after it has invoked the
\* sendFn of every target it started with that is still registered.
C16_RemovedTargetSkipped ==
    [][/\ Len(publish'.sendLog) > Len(publish.sendLog) =>
             /\ publish'.sendLog[Len(publish'.sendLog)] \notin publish.removed
             /\ publish'.sent = Len(publish'.sendLog)
       /\ (publish.name # "idle" /\ publish'.name = "idle") =>
             /\ op'.result = "ok"
             /\ op'.count = Len(op'.sendLog)
             /\ (publish.start \cap registeredRecs) \subseteq Range(op'.sendLog)]_vars

\* a sendToChannel has returned 1: the sendFn of its first target removed the
\* second target, which was not sent the message
C16_Witness ==
    /\ op.name = "sendToChannel"
    /\ op.result = "ok"
    /\ op.count = 1
    /\ op.removed # {}
    /\ op.removed \cap Range(op.sendLog) = {}

----------------------------------------------------------------------------
(* Properties of inbound messages *)

\* a handleMessage call for a connection that is registered
Handled(o) == o.name = "handleMessage" /\ o.rec # 0

SizeError == ErrorFrame("Message size exceeds maximum allowed size")

\* C17: the promise of handleMessage never rejects, whatever the frame, the
\* handler and the sendFn of the connection do.
C17_NeverRejects ==
    [][op'.name \in {"handleMessage", "handlerSettled"} => op'.result # "rejected"]_vars

\* C18: for a frame longer than maxMessageSize on a registered connection,
\* whatever its content, handleMessage sends one frame, the size error, and
\* calls no handler.
C18_SizeCheckFirst ==
    [][(Handled(op') /\ op'.frame.length > maxMessageSize) =>
          /\ op'.frames = <<SizeError>>
          /\ op'.handled = <<>>]_vars

C20_NoHandlerError ==
    [][(/\ Handled(op')
        /\ op'.frame.json = "typed"
        /\ op'.frame.length <= maxMessageSize
        /\ ~MapHas(messageHandlers, op'.frame.type)) =>
          /\ op'.frames = <<ErrorFrame("No handler found for message type: " \o op'.frame.type)>>
          /\ op'.handled = <<>>]_vars

C22_InvalidFrameAnswered ==
    [][(Handled(op') /\ op'.frame.json \in {"invalid", "null", "untyped"}) =>
          /\ Len(op'.frames) = 1
          /\ op'.frames[1].type = "error"
          /\ op'.sendLog = <<connectionsGet(connections, op'.id).rec>>
          /\ op'.handled = <<>>
          /\ Indices' = Indices
          /\ messageHandlers' = messageHandlers]_vars

\* a frame without a type came in on one of two registered connections while
\* a handler is registered
C22_Witness ==
    /\ Handled(op)
    /\ op.frame.json = "untyped"
    /\ op.result = "ok"
    /\ Len(connections) = 2
    /\ messageHandlers # EmptyMap

\* C23: handleMessage for a connectionId that is not a key of connections
\* resolves at once: no handler is called, no sendFn is called and nothing
\* changes, whatever the frame.
C23_UnknownConnectionIgnored ==
    [][(op'.name = "handleMessage" /\ ~connectionsHas(connections, op'.id)) =>
          /\ op'.result = "ok"
          /\ op'.handled = <<>>
          /\ op'.frames = <<>> /\ op'.sendLog = <<>>
          /\ Indices' = Indices
          /\ messageHandlers' = messageHandlers
          /\ pending' = pending
          /\ closeRawCalls' = closeRawCalls]_vars

\* a frame whose type has a handler came in for a connectionId that is not
\* registered while another connection is
C23_Witness ==
    /\ op.name = "handleMessage"
    /\ ~connectionsHas(connections, op.id)
    /\ op.frame.json = "typed"
    /\ MapHas(messageHandlers, op.frame.type)
    /\ op.frame.length <= maxMessageSize
    /\ Len(connections) > 0

----------------------------------------------------------------------------
(* Properties of delivery *)

\* the transports of the registered records of a user / on a channel
recsOfUser(u) == {connections[i].rec : i \in {j \in 1..Len(connections) : connections[j].userId = u}}
recsOnChannel(c) == {connections[i].rec : i \in {j \in 1..Len(connections) : connections[j].channel = c}}

\* C24: a sendToUser(u) that returns has invoked sendFn once on every record
\* registered for u and on no other record, and returns their number; a
\* sendToChannel(c) that returns has done so for the records on c.
C24_TargetsAreTheMembers ==
    [][/\ (op'.name = "sendToUser" /\ op'.result = "ok") =>
             /\ Range(op'.sendLog) = recsOfUser(op'.userId)
             /\ Len(op'.sendLog) = Cardinality(recsOfUser(op'.userId))
             /\ op'.count = Cardinality(recsOfUser(op'.userId))
       /\ (op'.name = "sendToChannel" /\ op'.result = "ok") =>
             /\ Range(op'.sendLog) = recsOnChannel(op'.channel)
             /\ Len(op'.sendLog) = Cardinality(recsOnChannel(op'.channel))
             /\ op'.count = Cardinality(recsOnChannel(op'.channel))]_vars

\* C25: sendToChannel(c) when no registered record is on channel c, and
\* sendToUser(u) when no registered record belongs to user u, return 0 and
\* invoke no sendFn.
C25_NoMemberNoSend ==
    [][/\ (op'.name = "sendToChannel" /\ recsOnChannel(op'.channel) = {}) =>
             (op'.result = "ok" /\ op'.count = 0 /\ op'.sendLog = <<>>)
       /\ (op'.name = "sendToUser" /\ recsOfUser(op'.userId) = {}) =>
             (op'.result = "ok" /\ op'.count = 0 /\ op'.sendLog = <<>>)]_vars

\* C27: the heartbeat timer runs from construction until closeAll, and every
\* tick hands one heartbeat to the sendFn of each record registered at the
\* tick and to no other.
C27_HeartbeatReachesAll ==
    [][/\ op.name = "new" => heartbeatTimer
       /\ (heartbeatTimer /\ op'.name # "closeAll") => heartbeatTimer'
       /\ op'.name = "heartbeat" =>
             /\ Range(op'.sendLog) = registeredRecs
             /\ Len(op'.sendLog) = Cardinality(registeredRecs)]_vars

\* C28: a closeFn that throws does not make close() throw and the record is
\* removed all the same; closeAll never throws, closes every record, clears
\* the heartbeat timer and leaves connections empty.
C28_CloseRawFailureSwallowed ==
    [][/\ op'.name = "close" =>
             /\ op'.result = "ok"
             /\ ~connectionsHas(connections', op'.id)
       /\ op'.name = "closeAll" =>
             /\ op'.result = "ok"
             /\ registeredRecs \subseteq Range(op'.closeLog)
             /\ connections' = <<>>
             /\ ~heartbeatTimer']_vars

\* C29: no send of any kind invokes the sendFn of a record whose
\* connectionId is no longer registered.
C29_RemovedNeverSent ==
    [][op'.name \in ManagerSends \cup {"send", "handleMessage", "handlerSettled"} =>
          \A rec \in Range(op'.sendLog) : connectionsHas(connections, handles[rec])]_vars

\* the places of message msg on the wire of transport rec
places(rec, msg) == {i \in 1..Len(wire[rec]) : wire[rec][i] = msg}

\* C26: the frames of successive sends reach the sendFn of one connection in
\* the order of the calls, each exactly once: every wire holds the numbers
\* of calls made, in rising order, and the frame of the last call is on the
\* wire of each transport it invoked once and on no other wire
C26_WireInCallOrder ==
    /\ \A rec \in 1..MaxRecords :
          /\ \A i \in 1..Len(wire[rec]) : wire[rec][i] \in 1..issued
          /\ \A i, j \in 1..Len(wire[rec]) : i < j => wire[rec][i] < wire[rec][j]
    /\ (issued > 0 /\ op.name \in ManagerSends \cup {"send"}) =>
          \A rec \in 1..MaxRecords :
             Cardinality(places(rec, issued)) = IF rec \in Range(op.sendLog) THEN 1 ELSE 0

\* one connection has been given the frames of two successive sends of
\* different kinds
C26_Witness ==
    /\ issued = 2
    /\ op.name = "broadcast"
    /\ \E rec \in 1..MaxRecords : wire[rec] = <<1, 2>> /\ Len(connections) = 2

----------------------------------------------------------------------------
(* Properties of the SSE encoding *)

\* the fields of the lines of a message, in order
fields(message) == [i \in 1..Len(message) |-> message[i].field]

\* C30: the message of an event is, in this order, an id line iff the event
\* has an id, an event line iff it has an event name, one data line, a retry
\* line iff it has a retry value, 0 included, and one blank line, and no
\* other line; the id, event and retry lines carry the event's values
C30_MessageLines ==
    sse.message # <<>> =>
       LET e == sse.event
       IN  /\ fields(sse.message) =
                 (IF e.id # Undefined THEN <<"id">> ELSE <<>>)
                 \o (IF e.event # Undefined THEN <<"event">> ELSE <<>>)
                 \o <<"data">>
                 \o (IF e.retry # <<>> THEN <<"retry">> ELSE <<>>)
                 \o <<"">>
           /\ \A i \in 1..Len(sse.message) :
                 LET line == sse.message[i]
                 IN  /\ line.field = "id" => line.value = e.id
                     /\ line.field = "event" => line.value = e.event
                     /\ line.field = "retry" => line.value = ToString(e.retry[1])

----------------------------------------------------------------------------
(* Properties of dispatch *)

\* a handleMessage call on a registered connection whose frame passed the
\* checks of the try block
Dispatched(o) == Handled(o) /\ validationError(o.frame, maxMessageSize) = ""

\* C31: a frame that passes validation invokes one handler once, the one the
\* last onMessage for its type registered, and none when the type has no
\* handler; onMessage(type, handler) makes handler the handler of type and
\* leaves the handlers of the other types, and no other call changes a handler
C31_LatestHandlerOnce ==
    [][/\ op'.name = "onMessage" =>
             /\ MapHas(messageHandlers', op'.id)
             /\ messageHandlers'[op'.id] = op'.handler
             /\ DOMAIN messageHandlers' = DOMAIN messageHandlers \cup {op'.id}
             /\ \A type \in DOMAIN messageHandlers :
                   type # op'.id => messageHandlers'[type] = messageHandlers[type]
       /\ op'.name # "onMessage" => messageHandlers' = messageHandlers
       /\ Dispatched(op') =>
             op'.invoked = IF MapHas(messageHandlers, op'.frame.type)
                           THEN <<messageHandlers[op'.frame.type]>> ELSE <<>>
       /\ (op'.name \in {"handleMessage", "handlerSettled"} /\ ~Dispatched(op')) =>
             op'.invoked = <<>>]_vars

\* a frame was dispatched to the handler that replaced another, while a
\* different handler is registered for the other type
C31_Witness ==
    /\ Dispatched(op)
    /\ op.frame.type = "chat"
    /\ op.invoked = <<"h2">>
    /\ MapHas(messageHandlers, "ping") /\ messageHandlers["ping"] = "h1"
    /\ messageHandlers["chat"] = "h2"

\* the calls that await their handler on connection id
inFlight(id) == {i \in 1..Len(pending) : pending[i].id = id}

\* C32: dispatch is not serialized per connection: a handleMessage call whose
\* frame passes validation invokes the handler of its type at once, whatever
\* calls on the same connection are awaiting their handler; it joins them when
\* its own handler suspends and otherwise ends without touching them
C32_DispatchNotSerialized ==
    [][(Dispatched(op') /\ MapHas(messageHandlers, op'.frame.type)) =>
          /\ op'.handled = <<op'.frame.type>>
          /\ op'.outcome = "pending" =>
                pending' = Append(pending, [rec |-> op'.rec, id |-> op'.id])
          /\ op'.outcome = "returns" => (pending' = pending /\ op'.result = "ok")]_vars

\* two handlers are in flight on one connection, and a further message on
\* that connection has been handled to its end
C32_Witness ==
    /\ \E id \in ConnectionIds : Cardinality(inFlight(id)) = 2 /\ op.id = id
    /\ Dispatched(op)
    /\ op.outcome = "returns"
    /\ op.result = "ok"
    /\ op.handled # <<>>

----------------------------------------------------------------------------
(* Properties of connections without a user *)

\* the registered records whose userId is absent or empty
anonymous(conns) == {i \in 1..Len(conns) : ~Truthy(conns[i].userId)}

\* C33: an addConnection without a userId (absent or empty) is never rejected
\* and changes the connection count of no user; a registered connection
\* without a userId is in no per-user set; it is counted by
\* getConnectionCount and is sent what broadcast and sendToChannel on its
\* channel send, when these return
C33_AnonymousOutsideQuota ==
    [][/\ (op'.name = "addConnection" /\ ~Truthy(op'.userId)) =>
             /\ op'.result = "ok"
             /\ connectionsHas(connections', op'.id)
             /\ \A u \in UserIds :
                   getUserConnectionCount([userConnections |-> userConnections'], u)
                      = getUserConnectionCount(Indices, u)
       /\ \A i \in anonymous(connections') :
             \A u \in DOMAIN userConnections' :
                connections'[i].id \notin Range(userConnections'[u])
       /\ getConnectionCount([connections |-> connections'])
             >= Cardinality(anonymous(connections'))
       /\ (op'.name = "broadcast" /\ op'.result = "ok") =>
             \A i \in anonymous(connections) : connections[i].rec \in Range(op'.sendLog)
       /\ (op'.name = "sendToChannel" /\ op'.result = "ok") =>
             \A i \in anonymous(connections) :
                connections[i].channel = op'.channel =>
                   connections[i].rec \in Range(op'.sendLog)]_vars

----------------------------------------------------------------------------
(* Properties of close and removal *)

\* C34: close() on a record removes that record only: when the id of the
\* record is registered again for another record, close() on the old record
\* leaves connections, the per-user sets and the per-channel sets as they are
C34_CloseRemovesOwnRecordOnly ==
    [][(/\ op'.name = "close"
        /\ connectionsHas(connections, op'.id)
        /\ connectionsGet(connections, op'.id).rec # op'.rec) =>
          /\ connections' = connections
          /\ userConnections' = userConnections
          /\ channelConnections' = channelConnections]_vars

\* the members of key's set in map m, without one id
others(m, key, id) == (IF MapHas(m, key) THEN Range(m[key]) ELSE {}) \ {id}

\* C35: removeConnection only deregisters: it calls no closeFn and no sendFn;
\* the records of the other ids stay as they are and no record appears; a
\* per-user or per-channel set changes by the removed id at most, and only
\* the set of the removed record's user or channel changes; closeFn is
\* called by close() and closeAll() only
C35_RemoveOnlyDeregisters ==
    [][/\ op'.name = "removeConnection" =>
             /\ closeRawCalls' = closeRawCalls
             /\ op'.sendLog = <<>> /\ op'.closeLog = <<>>
             /\ Range(connections') = {r \in Range(connections) : r.id # op'.id}
             /\ \A u \in DOMAIN userConnections \cup DOMAIN userConnections' :
                   /\ others(userConnections', u, op'.id) = others(userConnections, u, op'.id)
                   /\ u # op'.userId =>
                         others(userConnections', u, "") = others(userConnections, u, "")
             /\ \A c \in DOMAIN channelConnections \cup DOMAIN channelConnections' :
                   /\ others(channelConnections', c, op'.id)
                         = others(channelConnections, c, op'.id)
                   /\ c # op'.channel =>
                         others(channelConnections', c, "") = others(channelConnections, c, "")
       /\ closeCalls(closeRawCalls') # closeCalls(closeRawCalls) =>
             op'.name \in {"close", "closeAll"}]_vars

\* removeConnection has removed one of two records of a user on a channel,
\* and no closeFn has been called
C35_Witness ==
    /\ op.name = "removeConnection"
    /\ op.count = 1
    /\ Truthy(op.userId) /\ Truthy(op.channel)
    /\ others(userConnections, op.userId, op.id) # {}
    /\ others(channelConnections, op.channel, op.id) # {}
    /\ Len(connections) = 1
    /\ closeCalls(closeRawCalls) = 0

----------------------------------------------------------------------------
(* Properties of the manager after closeAll *)

\* C36: closeAll ends the heartbeat and not the registration: a closeAll that
\* returns leaves the timer stopped, a stopped timer is never started and
\* only a running timer ticks, so no connection registered after closeAll is
\* sent a heartbeat; with the timer stopped addConnection is accepted unless
\* the user is at the quota, its record is registered and indexed, and the
\* sends of the manager reach the registered connections
C36_HeartbeatEndsRegistrationGoesOn ==
    [][/\ (op'.name = "closeAll" /\ op'.result = "ok") => ~heartbeatTimer'
       /\ ~heartbeatTimer => ~heartbeatTimer'
       /\ op'.name = "heartbeat" => heartbeatTimer
       /\ (~heartbeatTimer /\ op'.name = "addConnection") =>
             /\ op'.result = "ok" <=>
                   ~quotaExceeded(Indices, op'.userId, maxConnectionsPerUser)
             /\ op'.result = "ok" =>
                   /\ connectionsHas(connections', op'.id)
                   /\ connectionsGet(connections', op'.id).rec = op'.rec
                   /\ Truthy(op'.userId) =>
                         op'.id \in Range(userConnections'[op'.userId])
                   /\ Truthy(op'.channel) =>
                         op'.id \in Range(channelConnections'[op'.channel])
       /\ (~heartbeatTimer /\ op'.result = "ok") =>
             /\ op'.name = "broadcast" => Range(op'.sendLog) = registeredRecs
             /\ op'.name = "sendToUser" => recsOfUser(op'.userId) \subseteq Range(op'.sendLog)
             /\ op'.name = "sendToChannel" =>
                   recsOnChannel(op'.channel) \subseteq Range(op'.sendLog)
             /\ (op'.name = "sendToConnection" /\ connectionsHas(connections, op'.id)) =>
                   op'.sendLog = <<connectionsGet(connections, op'.id).rec>>]_vars

\* after closeAll two connections were registered and a broadcast has been
\* sent to both
C36_Witness ==
    /\ ~heartbeatTimer
    /\ op.name = "broadcast"
    /\ Len(op.sendLog) = 2
    /\ Range(op.sendLog) = registeredRecs

----------------------------------------------------------------------------
(* Properties of the unit of work *)

\* the execute calls that have returned and whose begin returned / threw
Began(x) == x.status = "returned" /\ x.operations = 1
BeginFailed(x) == x.status = "returned" /\ x.connectError # None

\* C37: an execute whose operation returns a success calls begin and commit,
\* in this order and nothing else, and returns the operation's Result; one
\* whose operation returns a failure or throws calls begin and rollback and
\* returns a failure; no execute calls both commit and rollback, and the unit
\* of work is not in a transaction when such an execute returns
C37_ExecuteCommitsOrRollsBack ==
    \A e \in 1..Len(executes) :
       LET x == executes[e]
       IN  Began(x) =>
              /\ x.outcome.settled = "resolves" /\ x.outcome.result.kind = "success" =>
                    x.calls = <<"begin", "commit">> /\ x.result = x.outcome.result
              /\ x.outcome.settled = "resolves" /\ x.outcome.result.kind = "failure" =>
                    x.calls = <<"begin", "rollback">> /\ x.result = x.outcome.result
              /\ x.outcome.settled = "throws" =>
                    /\ x.calls = <<"begin", "rollback">>
                    /\ x.result = Fail(messageOf(x.outcome.result))
              /\ ~("commit" \in Range(x.calls) /\ "rollback" \in Range(x.calls))
              /\ ~x.active

\* one execute has committed and another has rolled back after its operation
\* threw
C37_Witness ==
    /\ Len(executes) = 2
    /\ Began(executes[1]) /\ executes[1].calls = <<"begin", "commit">>
    /\ Began(executes[2]) /\ executes[2].outcome.settled = "throws"
    /\ unitOfWork.history = <<"begin", "commit", "begin", "rollback">>

\* C38: an execute whose begin fails because connect rejects does not call
\* the operation, commit or rollback; it returns a failure with the message
\* of the connect error, and a unit of work that was not in a transaction is
\* in none afterwards
C38_BeginFailureReturnsFailure ==
    \A e \in 1..Len(executes) :
       LET x == executes[e]
       IN  BeginFailed(x) =>
              /\ x.operations = 0
              /\ x.calls = <<"begin">>
              /\ x.result = Fail(messageOf(x.connectError))
              /\ ~x.before => ~x.active

\* connect has rejected and the execute has returned its message; the unit
\* of work is not in a transaction
C38_Witness ==
    /\ Len(executes) = 1
    /\ BeginFailed(executes[1])
    /\ executes[1].result = Fail("boom")
    /\ ~unitOfWork.active
    /\ unitOfWork.history = <<"begin">>

----------------------------------------------------------------------------
(* Properties of the circuit breaker *)

\* the breaker after the first k calls, as the calls themselves tell: count
\* is the number of calls counted since the start or the last reset, last
\* the time of the last counted call
RECURSIVE breaker(_)
breaker(k) ==
    IF k = 0 THEN [count |-> 0, last |-> 0]
    ELSE LET b == breaker(k - 1)
             call == chaos.calls[k]
         IN  IF b.count < chaos.scenario.failureThreshold
             THEN [count |-> b.count + 1, last |-> call.at]
             ELSE IF call.at - b.last > chaos.scenario.resetTimeMs
             THEN [count |-> 1, last |-> call.at]
             ELSE b

\* the breaker is open for the k-th call: failureThreshold calls were counted
\* and no more than resetTimeMs has passed since the last of them
open(k) ==
    LET b == breaker(k - 1)
    IN  /\ b.count >= chaos.scenario.failureThreshold
        /\ chaos.calls[k].at - b.last <= chaos.scenario.resetTimeMs

\* C39: the first failureThreshold calls return; every call after them
\* throws 'Circuit breaker open' while no more than resetTimeMs has passed
\* since the last counted call; the first call after resetTimeMs has passed
\* returns and is the first of a new count
C39_CircuitBreaker ==
    /\ \A k \in 1..Len(chaos.calls) :
          /\ k <= chaos.scenario.failureThreshold => ~chaos.calls[k].threw
          /\ chaos.calls[k].threw <=> open(k)
    /\ chaos.calls # <<>> =>
          /\ chaos.circuit.failures = breaker(Len(chaos.calls)).count
          /\ chaos.circuit.lastFailure = breaker(Len(chaos.calls)).last

\* the breaker of a scenario with threshold 2 has opened, has thrown, and has
\* let a call through after the reset time
C39_Witness ==
    /\ chaos.scenario.failureThreshold = 2
    /\ Len(chaos.calls) = 4
    /\ ~chaos.calls[1].threw /\ ~chaos.calls[2].threw
    /\ chaos.calls[3].threw
    /\ ~chaos.calls[4].threw
    /\ chaos.circuit.failures = 1

====
